---------------------------- MODULE Spec2Model ----------------------------
(***************************************************************************)
(* CANaerospace log decoder (parse_canaero_log.py): the line pattern, the  *)
(* header split, the Type Table, decode_data_by_type, parse_line and the   *)
(* parse_log_file loop; and the time-stamp corrector (correct-ts.py): its  *)
(* check, getCanDate and statistics functions and its main loop.           *)
(*                                                                         *)
(* Text that the program parses (an input line, the "can_id" field that    *)
(* the filter splits) is a sequence of one-character strings; text that    *)
(* the program only produces is a TLA+ string.  Python values of different *)
(* types are tagged tuples: <<"None">>, <<"int", n>>, <<"str", s>>, ...    *)
(***************************************************************************)
EXTENDS Integers, Sequences, FiniteSets, TLC

\* ------------------------------------------------------------------ bounds

\* Longest input file, in lines, of the corpus specification.
MaxLines == 3
\* Longest payload (bytes after the 4-byte header) of the frame specification.
MaxPayloadLen == 9
\* Longest input file, in lines, of the correct-ts.py specification.
MaxScriptLines == 3

\* ------------------------------------------------------- Python primitives

None == <<"None">>

\* Character classes of the `re` module, for ASCII input: \d, [0-9A-Fa-f], \s.
Digit == {"0", "1", "2", "3", "4", "5", "6", "7", "8", "9"}
HexDigit == Digit \cup {"A", "B", "C", "D", "E", "F", "a", "b", "c", "d", "e", "f"}
WhiteSpace == {" ", "\t", "\n", "\r"}

HexDigits == <<"0", "1", "2", "3", "4", "5", "6", "7", "8", "9", "A", "B", "C", "D", "E", "F">>

\* str.upper() on one character (the characters the line pattern can capture).
upper(c) ==
    CASE c = "a" -> "A" [] c = "b" -> "B" [] c = "c" -> "C"
      [] c = "d" -> "D" [] c = "e" -> "E" [] c = "f" -> "F"
      [] OTHER -> c

\* The value of one hexadecimal digit.
HexVal(c) == CHOOSE v \in 0..15 : HexDigits[v + 1] = upper(c)

\* "".join(chars): a sequence of characters as one string.
RECURSIVE Join(_)
Join(chars) == IF chars = <<>> THEN "" ELSE Head(chars) \o Join(Tail(chars))

\* int(text, 16) for a non-empty run of hexadecimal digits.
RECURSIVE int16(_)
int16(text) ==
    IF text = <<>> THEN 0
    ELSE int16(SubSeq(text, 1, Len(text) - 1)) * 16 + HexVal(text[Len(text)])

\* format(n, "X"): uppercase hexadecimal digits of n >= 0, no leading zeros.
RECURSIVE FormatX(_)
FormatX(n) ==
    IF n < 16 THEN <<HexDigits[n + 1]>>
    ELSE Append(FormatX(n \div 16), HexDigits[(n % 16) + 1])

\* format(n, "02X"): as FormatX, zero-padded to two digits.
Format02X(n) == IF n < 16 THEN <<"0">> \o FormatX(n) ELSE FormatX(n)

\* format(n, "d") / str(n) for an integer.
RECURSIVE FormatD(_)
FormatD(n) ==
    IF n < 0 THEN <<"-">> \o FormatD(-n)
    ELSE IF n < 10 THEN <<HexDigits[n + 1]>>
    ELSE Append(FormatD(n \div 10), HexDigits[(n % 10) + 1])

\* bytes.hex().upper(): two uppercase hexadecimal digits per byte.
RECURSIVE bytes_hex_upper(_)
bytes_hex_upper(raw_bytes) ==
    IF raw_bytes = <<>> THEN ""
    ELSE Join(Format02X(Head(raw_bytes))) \o bytes_hex_upper(Tail(raw_bytes))

\* bytes.fromhex(text) for text of hexadecimal digits only: ValueError on an
\* odd number of digits, else one byte per pair.
RECURSIVE HexPairs(_)
HexPairs(text) ==
    IF text = <<>> THEN <<>>
    ELSE <<HexVal(text[1]) * 16 + HexVal(text[2])>> \o HexPairs(SubSeq(text, 3, Len(text)))

bytes_fromhex(text) ==
    IF Len(text) % 2 = 1 THEN <<"ValueError">> ELSE <<"bytes", HexPairs(text)>>

\* str.split()[0]: the first run of non-whitespace characters (IndexError
\* when there is none).
RECURSIVE SkipWhile(_, _, _)
SkipWhile(text, i, class) ==
    IF i <= Len(text) /\ text[i] \in class THEN SkipWhile(text, i + 1, class) ELSE i

RECURSIVE SkipUntil(_, _, _)
SkipUntil(text, i, class) ==
    IF i <= Len(text) /\ text[i] \notin class THEN SkipUntil(text, i + 1, class) ELSE i

split_first(text) ==
    LET b == SkipWhile(text, 1, WhiteSpace)
        e == SkipUntil(text, b, WhiteSpace)
    IN  IF b > Len(text) THEN <<"IndexError">> ELSE <<"str", SubSeq(text, b, e - 1)>>

\* ------------------------------------------------------- the line pattern

\* CAN_LINE_PATTERN.match(line): the pattern matched at the start of the
\* line, nothing required of what follows the match.  Every quantified class
\* is followed by a character outside it, so the greedy runs never backtrack.
\* Result: None or <<"match", group1, group2, group3, end>>, end being
\* match.end(), the number of characters of the line the match covers.
CAN_LINE_PATTERN_match(line) ==
    LET t0  == 2
        t1  == SkipWhile(line, t0, Digit \cup {"."})
        w1  == SkipWhile(line, t1 + 1, WhiteSpace)
        d0  == w1 + 3
        d1  == SkipWhile(line, d0, Digit)
        i0  == SkipWhile(line, d1, WhiteSpace)
        i1  == SkipWhile(line, i0, HexDigit)
        p0  == i1 + 1
        p1  == SkipWhile(line, p0, HexDigit)
    IN  IF /\ Len(line) >= 1 /\ line[1] = "("
           /\ t1 > t0
           /\ t1 <= Len(line) /\ line[t1] = ")"
           /\ w1 > t1 + 1
           /\ w1 + 2 <= Len(line)
           /\ line[w1] = "c" /\ line[w1 + 1] = "a" /\ line[w1 + 2] = "n"
           /\ d1 > d0
           /\ i0 > d1
           /\ i1 > i0
           /\ i1 <= Len(line) /\ line[i1] = "#"
           /\ p1 > p0
        THEN <<"match", SubSeq(line, t0, t1 - 1), SubSeq(line, i0, i1 - 1), SubSeq(line, p0, p1 - 1), p1 - 1>>
        ELSE None

\* float(text) for text of digits and dots (all that group 1 can hold):
\* ValueError unless there is a digit and at most one dot.
CountOf(text, c) == Cardinality({i \in 1..Len(text) : text[i] = c})

float_ok(text) == CountOf(text, ".") <= 1 /\ Len(text) - CountOf(text, ".") >= 1

\* The whole seconds of a timestamp text, leading zeros dropped.
IntegerPart(text) ==
    LET dot    == SkipUntil(text, 1, {"."})
        digits == SubSeq(text, 1, dot - 1)
        nz     == SkipWhile(digits, 1, {"0"})
    IN  SubSeq(digits, nz, Len(digits))

\* a < b for two digit strings without leading zeros.
RECURSIVE LexLess(_, _)
LexLess(a, b) ==
    IF a = <<>> THEN FALSE
    ELSE IF Head(a) # Head(b) THEN HexVal(Head(a)) < HexVal(Head(b))
    ELSE LexLess(Tail(a), Tail(b))

DigitsLess(a, b) == Len(a) < Len(b) \/ (Len(a) = Len(b) /\ LexLess(a, b))

\* datetime.fromtimestamp(ts, tz=utc) raises (ValueError: year out of range,
\* or OverflowError for a value past time_t; both modelled as one exception)
\* from 10000-01-01T00:00:00Z on: 253402300800 s.  The whole seconds decide;
\* a fraction that rounds the last second of year 9999 up is not an input
\* here.
FirstSecondOfYear10000 == <<"2", "5", "3", "4", "0", "2", "3", "0", "0", "8", "0", "0">>

fromtimestamp_ok(text) == DigitsLess(IntegerPart(text), FirstSecondOfYear10000)

\* -------------------------------------------------------------- the tables

\* CANID_INFO: CAN id -> (parameter name, unit).
CANID_INFO ==
       (300 :> <<"Body Longitudinal Acceleration", "m/s²">>)   \* 0x12C
    @@ (301 :> <<"Body Lateral Acceleration", "m/s²">>)   \* 0x12D
    @@ (302 :> <<"Body Normal Acceleration", "m/s²">>)   \* 0x12E
    @@ (303 :> <<"Body Pitch Rate", "deg/s">>)   \* 0x12F
    @@ (304 :> <<"Body Roll Rate", "deg/s">>)   \* 0x130
    @@ (305 :> <<"Body Yaw Rate", "deg/s">>)   \* 0x131
    @@ (306 :> <<"Rudder Position", "deg">>)   \* 0x132
    @@ (307 :> <<"Stabilizer Position", "deg">>)   \* 0x133
    @@ (308 :> <<"Elevator Position", "deg">>)   \* 0x134
    @@ (309 :> <<"Left Aileron Position", "deg">>)   \* 0x135
    @@ (310 :> <<"Right Aileron Position", "deg">>)   \* 0x136
    @@ (311 :> <<"Body Pitch Angle", "deg">>)   \* 0x137
    @@ (312 :> <<"Body Roll Angle", "deg">>)   \* 0x138
    @@ (313 :> <<"Body Sideslip", "deg">>)   \* 0x139
    @@ (314 :> <<"Altitude Rate", "m/s">>)   \* 0x13A
    @@ (315 :> <<"Indicated Airspeed", "m/s">>)   \* 0x13B
    @@ (316 :> <<"True Airspeed", "m/s">>)   \* 0x13C
    @@ (317 :> <<"Calibrated Airspeed", "m/s">>)   \* 0x13D
    @@ (318 :> <<"Mach Number", "Mach">>)   \* 0x13E
    @@ (319 :> <<"Baro Correction", "hPa">>)   \* 0x13F
    @@ (320 :> <<"Baro Corrected Altitude", "m">>)   \* 0x140
    @@ (321 :> <<"Heading Angle", "deg">>)   \* 0x141
    @@ (322 :> <<"Standard Altitude", "m">>)   \* 0x142
    @@ (323 :> <<"Total Air Temperature", "K">>)   \* 0x143
    @@ (324 :> <<"Static Air Temperature", "K">>)   \* 0x144
    @@ (325 :> <<"Differential Pressure", "hPa">>)   \* 0x145
    @@ (326 :> <<"Static Pressure", "hPa">>)   \* 0x146
    @@ (327 :> <<"Heading Rate", "deg/s">>)   \* 0x147
    @@ (328 :> <<"Port Side Angle Of Attack", "deg">>)   \* 0x148
    @@ (329 :> <<"Starbord Side Angle Of Attack", "deg">>)   \* 0x149
    @@ (330 :> <<"Density Altitude", "m">>)   \* 0x14A
    @@ (331 :> <<"Turn Coordination Rate", "deg/s">>)   \* 0x14B
    @@ (332 :> <<"True Altitude", "m">>)   \* 0x14C
    @@ (333 :> <<"Wind Speed", "m/s">>)   \* 0x14D
    @@ (334 :> <<"Wind Direction", "deg">>)   \* 0x14E
    @@ (335 :> <<"Outside Air Temperature", "K">>)   \* 0x14F
    @@ (336 :> <<"Body Normal Velocity", "m/s">>)   \* 0x150
    @@ (337 :> <<"Body Longitudinal Velocity", "m/s">>)   \* 0x151
    @@ (338 :> <<"Body Lateral Velocity", "m/s">>)   \* 0x152
    @@ (339 :> <<"Total Pressure", "hPa">>)   \* 0x153
    @@ (340 :> <<"Flaps position", "deg">>)   \* 0x154
    @@ (342 :> <<"Speed brake position", "deg">>)   \* 0x156
    @@ (345 :> <<"Vertical speed of the airmass", "m/s">>)   \* 0x159
    @@ (348 :> <<"TEK altitude rate", "m/s">>)   \* 0x15C
    @@ (400 :> <<"Pitch Control Position", "deg">>)   \* 0x190
    @@ (401 :> <<"Roll Control Position", "deg">>)   \* 0x191
    @@ (402 :> <<"Lateral Stick Trim Position Command", "deg">>)   \* 0x192
    @@ (403 :> <<"Yaw Control Position", "deg">>)   \* 0x193
    @@ (404 :> <<"Collective Control Position", "deg">>)   \* 0x194
    @@ (405 :> <<"Longitudinal Stick Trim Position Command", "deg">>)   \* 0x195
    @@ (406 :> <<"Directional Pedals Trim Position Command", "deg">>)   \* 0x196
    @@ (407 :> <<"Collective Lever Trim Position Command", "deg">>)   \* 0x197
    @@ (408 :> <<"Cyclic Control Stick Switches", "enum">>)   \* 0x198
    @@ (409 :> <<"Lateral Trim Speed", "deg/s">>)   \* 0x199
    @@ (410 :> <<"Longitudinal Trim Speed", "deg/s">>)   \* 0x19A
    @@ (411 :> <<"Pedal Trim Speed", "deg/s">>)   \* 0x19B
    @@ (412 :> <<"Collective Trim Speed", "deg/s">>)   \* 0x19C
    @@ (413 :> <<"Nose Wheel Steering Handle Position", "deg">>)   \* 0x19D
    @@ (414 :> <<"Engine 1 Throttle Lever Position Ecs Channel A", "%">>)   \* 0x19E
    @@ (415 :> <<"Engine 2 Throttle Lever Position Ecs Channel A", "%">>)   \* 0x19F
    @@ (430 :> <<"Flaps Lever Position", "deg">>)   \* 0x1AE
    @@ (431 :> <<"Slats Lever Position", "deg">>)   \* 0x1AF
    @@ (432 :> <<"Park Brake Lever Position", "enum">>)   \* 0x1B0
    @@ (433 :> <<"Speedbrake Lever Position", "deg">>)   \* 0x1B1
    @@ (434 :> <<"Throttle Max Lever Position", "%">>)   \* 0x1B2
    @@ (435 :> <<"Pilot Left Brake Pedal Position", "%">>)   \* 0x1B3
    @@ (436 :> <<"Pilot Right Brake Pedal Position", "%">>)   \* 0x1B4
    @@ (437 :> <<"Copilot Left Brake Pedal Position", "%">>)   \* 0x1B5
    @@ (438 :> <<"Copilot Right Brake Pedal Position", "%">>)   \* 0x1B6
    @@ (439 :> <<"Trim System Switches", "enum">>)   \* 0x1B7
    @@ (440 :> <<"Trim System Lights", "enum">>)   \* 0x1B8
    @@ (441 :> <<"Collective Control Stick Switches", "enum">>)   \* 0x1B9
    @@ (442 :> <<"Stick Shaker Stall Warning Device", "enum">>)   \* 0x1BA
    @@ (500 :> <<"Engine 1 N1 Ecs Channel A", "%">>)   \* 0x1F4
    @@ (501 :> <<"Engine 2 N1 Ecs Channel A", "%">>)   \* 0x1F5
    @@ (660 :> <<"Fuel Pump 1 Flow Rate", "L/h">>)   \* 0x294
    @@ (661 :> <<"Fuel Pump 2 Flow Rate", "L/h">>)   \* 0x295
    @@ (1000 :> <<"Active Nav System Waypoint Latitude", "deg">>)   \* 0x3E8
    @@ (1001 :> <<"Active Nav System Waypoint Longitude", "deg">>)   \* 0x3E9
    @@ (1002 :> <<"Active Nav System Waypoint Height Above Ellipsoid", "m">>)   \* 0x3EA
    @@ (1003 :> <<"Active Nav System Waypoint Altitude", "m">>)   \* 0x3EB
    @@ (1004 :> <<"Active Nav System Ground Speed", "m/s">>)   \* 0x3EC
    @@ (1005 :> <<"Active Nav System True Track", "deg">>)   \* 0x3ED
    @@ (1006 :> <<"Active Nav System Magnetic Track", "deg">>)   \* 0x3EE
    @@ (1007 :> <<"Active Nav System Cross Track Error", "m">>)   \* 0x3EF
    @@ (1008 :> <<"Active Nav System Track Error Angle", "deg">>)   \* 0x3F0
    @@ (1009 :> <<"Active Nav System Time To Go", "s">>)   \* 0x3F1
    @@ (1010 :> <<"Active Nav System Estimated Time Of Arrival", "timestamp">>)   \* 0x3F2
    @@ (1011 :> <<"Active Nav System Estimated Enroute Time", "s">>)   \* 0x3F3
    @@ (1012 :> <<"Gps Aircraft Latitude", "deg">>)   \* 0x3F4
    @@ (1013 :> <<"Gps Aircraft Longitude", "deg">>)   \* 0x3F5
    @@ (1014 :> <<"Gps Aircraft Height Above Ellipsoid", "m">>)   \* 0x3F6
    @@ (1015 :> <<"Gps Ground Speed", "m/s">>)   \* 0x3F7
    @@ (1016 :> <<"Gps True Track", "deg">>)   \* 0x3F8
    @@ (1017 :> <<"Gps Magnetic Track", "deg">>)   \* 0x3F9
    @@ (1018 :> <<"Gps Cross Track Error", "m">>)   \* 0x3FA
    @@ (1019 :> <<"Gps Track Error Angle", "deg">>)   \* 0x3FB
    @@ (1020 :> <<"Gps Glideslope Deviation", "deg">>)   \* 0x3FC
    @@ (1021 :> <<"Gps Predicted Raim", "enum">>)   \* 0x3FD
    @@ (1022 :> <<"Gps Vertical Figure Of Merit", "m">>)   \* 0x3FE
    @@ (1023 :> <<"Gps Horizontal Figure Of Merit", "m">>)   \* 0x3FF
    @@ (1024 :> <<"Gps Mode Of Operation", "enum">>)   \* 0x400
    @@ (800 :> <<"Hydraulic System 1 Pressure", "kPa">>)   \* 0x320
    @@ (801 :> <<"Hydraulic System 2 Pressure", "kPa">>)   \* 0x321
    @@ (1200 :> <<"Utc", "timestamp">>)   \* 0x4B0
    @@ (1201 :> <<"Cabin Pressure", "hPa">>)   \* 0x4B1
    @@ (1202 :> <<"Cabin Altitude", "m">>)   \* 0x4B2
    @@ (1203 :> <<"Cabin Temperature", "°C">>)   \* 0x4B3
    @@ (1204 :> <<"Longitudinal Center Of Gravity", "m">>)   \* 0x4B4
    @@ (1205 :> <<"Lateral Center Of Gravity", "m">>)   \* 0x4B5
    @@ (1206 :> <<"Date", "date">>)   \* 0x4B6

\* CANID_INFO.get(can_id, ("Unknown", ""))
CANID_INFO_get(can_id) ==
    IF can_id \in DOMAIN CANID_INFO THEN CANID_INFO[can_id] ELSE <<"Unknown", "">>

\* A struct format: byte order, repeat count, format character.
Fmt(order, count, ch) == <<order, count, ch>>
\* A Type Table entry: (struct format, byte length, name).
Info(fmt, num_bytes, data_type) == <<fmt, num_bytes, data_type>>

\* The entries the literal lists (0x00..0x1F).
DATA_TYPE_INFO_literal(type_id) ==
    CASE type_id =  0 -> Info(None, 0, "NODATA")   \* 0x00
      [] type_id =  1 -> Info(Fmt(">", 1, "I"), 4, "ERROR")   \* 0x01
      [] type_id =  2 -> Info(Fmt(">", 1, "f"), 4, "FLOAT")   \* 0x02
      [] type_id =  3 -> Info(Fmt(">", 1, "i"), 4, "LONG")   \* 0x03
      [] type_id =  4 -> Info(Fmt(">", 1, "I"), 4, "ULONG")   \* 0x04
      [] type_id =  5 -> Info(Fmt(">", 1, "I"), 4, "BLONG")   \* 0x05
      [] type_id =  6 -> Info(Fmt(">", 1, "h"), 2, "SHORT")   \* 0x06
      [] type_id =  7 -> Info(Fmt(">", 1, "H"), 2, "USHORT")   \* 0x07
      [] type_id =  8 -> Info(Fmt(">", 1, "H"), 2, "BSHORT")   \* 0x08
      [] type_id =  9 -> Info(Fmt(">", 1, "b"), 1, "CHAR")   \* 0x09
      [] type_id = 10 -> Info(Fmt(">", 1, "B"), 1, "UCHAR")   \* 0x0A
      [] type_id = 11 -> Info(Fmt(">", 1, "B"), 1, "BCHAR")   \* 0x0B
      [] type_id = 12 -> Info(Fmt(">", 2, "h"), 4, "SHORT2")   \* 0x0C
      [] type_id = 13 -> Info(Fmt(">", 2, "H"), 4, "USHORT2")   \* 0x0D
      [] type_id = 14 -> Info(Fmt(">", 2, "H"), 4, "BSHORT2")   \* 0x0E
      [] type_id = 15 -> Info(Fmt(">", 4, "b"), 4, "CHAR4")   \* 0x0F
      [] type_id = 16 -> Info(Fmt(">", 4, "B"), 4, "UCHAR4")   \* 0x10
      [] type_id = 17 -> Info(Fmt(">", 4, "B"), 4, "BCHAR4")   \* 0x11
      [] type_id = 18 -> Info(Fmt(">", 2, "b"), 2, "CHAR2")   \* 0x12
      [] type_id = 19 -> Info(Fmt(">", 2, "B"), 2, "UCHAR2")   \* 0x13
      [] type_id = 20 -> Info(Fmt(">", 2, "B"), 2, "BCHAR2")   \* 0x14
      [] type_id = 21 -> Info(Fmt(">", 1, "I"), 4, "MEMID")   \* 0x15
      [] type_id = 22 -> Info(Fmt(">", 1, "I"), 4, "CHKSUM")   \* 0x16
      [] type_id = 23 -> Info(Fmt(">", 1, "B"), 1, "ACHAR")   \* 0x17
      [] type_id = 24 -> Info(Fmt(">", 2, "B"), 2, "ACHAR2")   \* 0x18
      [] type_id = 25 -> Info(Fmt(">", 4, "B"), 4, "ACHAR4")   \* 0x19
      [] type_id = 26 -> Info(Fmt(">", 3, "b"), 3, "CHAR3")   \* 0x1A
      [] type_id = 27 -> Info(Fmt(">", 3, "B"), 3, "UCHAR3")   \* 0x1B
      [] type_id = 28 -> Info(Fmt(">", 3, "B"), 3, "BCHAR3")   \* 0x1C
      [] type_id = 29 -> Info(Fmt(">", 4, "b"), 4, "CHAR4")   \* 0x1D
      [] type_id = 30 -> Info(Fmt(">", 1, "d"), 8, "DOUBLEH")   \* 0x1E
      [] type_id = 31 -> Info(Fmt("<", 1, "d"), 8, "DOUBLEL")   \* 0x1F

\* Mutant of ReservedRange: range(0x20, 0x64).
ReservedRange_through_0x63 == 32..99

\* range(0x20, 0x63) and range(0x64, 0xFF) of the two update() calls.
ReservedRange == 32..98
UserDefinedRange == 100..254

\* DATA_TYPE_INFO after the two update() calls.
DATA_TYPE_INFO ==
    [type_id \in (0..31) \cup ReservedRange \cup UserDefinedRange |->
        IF type_id \in 0..31 THEN DATA_TYPE_INFO_literal(type_id)
        ELSE IF type_id \in ReservedRange THEN Info(Fmt(">", 1, "x"), 4, "RESVD")
        ELSE Info(Fmt(">", 1, "x"), 4, "UDEF")]

\* Mutant of DATA_TYPE_INFO_get: entries of equal layout merged, 0x11 served
\* by the entry of 0x10.
DATA_TYPE_INFO_get_merged_layouts(data_type_code) ==
    IF data_type_code = 17 THEN DATA_TYPE_INFO[16]
    ELSE IF data_type_code \in DOMAIN DATA_TYPE_INFO THEN DATA_TYPE_INFO[data_type_code]
    ELSE None

\* DATA_TYPE_INFO.get(data_type_code)
DATA_TYPE_INFO_get(data_type_code) ==
    IF data_type_code \in DOMAIN DATA_TYPE_INFO THEN DATA_TYPE_INFO[data_type_code] ELSE None

\* ------------------------------------------------------------ struct.unpack

\* Bytes of one element of a struct format character.
struct_size(ch) ==
    CASE ch \in {"x", "b", "B"} -> 1
      [] ch \in {"h", "H"} -> 2
      [] ch \in {"i", "I", "f"} -> 4
      [] ch = "d" -> 8

\* struct.calcsize(fmt) with an explicit byte order (no padding).
struct_calcsize(fmt) == fmt[2] * struct_size(fmt[3])

Reverse(s) == [i \in 1..Len(s) |-> s[Len(s) + 1 - i]]

\* One element from its bytes, most significant first.  A 32-bit unsigned
\* value is kept as two 16-bit halves and a float as its IEEE-754 fields
\* (sign, biased exponent, fraction), so that every value stays within
\* TLC's 32-bit integers:
\*   <<"int", n>>                    b B h H i
\*   <<"uint32", hi16, lo16>>        I      (value hi16 * 65536 + lo16)
\*   <<"float32", s, e, f>>          f      (f: 23 bits)
\*   <<"float64", s, e, fhi, flo>>   d      (fraction fhi * 2^24 + flo, 52 bits)
struct_element(ch, b) ==
    CASE ch = "B" -> <<"int", b[1]>>
      [] ch = "b" -> <<"int", IF b[1] >= 128 THEN b[1] - 256 ELSE b[1]>>
      [] ch = "H" -> <<"int", b[1] * 256 + b[2]>>
      [] ch = "h" -> <<"int", (IF b[1] >= 128 THEN b[1] - 256 ELSE b[1]) * 256 + b[2]>>
      [] ch = "i" -> <<"int", (IF b[1] >= 128 THEN b[1] - 256 ELSE b[1]) * 16777216
                              + b[2] * 65536 + b[3] * 256 + b[4]>>
      [] ch = "I" -> <<"uint32", b[1] * 256 + b[2], b[3] * 256 + b[4]>>
      [] ch = "f" -> <<"float32", b[1] \div 128, (b[1] % 128) * 2 + b[2] \div 128,
                       (b[2] % 128) * 65536 + b[3] * 256 + b[4]>>
      [] ch = "d" -> <<"float64", b[1] \div 128, (b[1] % 128) * 16 + b[2] \div 16,
                       (b[2] % 16) * 16777216 + b[3] * 65536 + b[4] * 256 + b[5],
                       b[6] * 65536 + b[7] * 256 + b[8]>>

\* struct.unpack(fmt, buffer): struct.error unless the buffer has exactly
\* calcsize(fmt) bytes; pad bytes ("x") yield no element.
struct_unpack(fmt, buffer) ==
    LET order == fmt[1]
        count == fmt[2]
        ch    == fmt[3]
        size  == struct_size(ch)
        chunk(k) == SubSeq(buffer, (k - 1) * size + 1, k * size)
    IN  IF Len(buffer) # struct_calcsize(fmt) THEN <<"struct.error">>
        ELSE IF ch = "x" THEN <<"tuple", <<>>>>
        ELSE <<"tuple", [k \in 1..count |->
                    struct_element(ch, IF order = "<" THEN Reverse(chunk(k)) ELSE chunk(k))]>>

\* str(v) of an unpacked element (the table joins only 8- and 16-bit
\* integers, the formats with a repeat count above 1).
str(v) == Join(FormatD(v[2]))

\* ','.join(map(str, unpacked))
RECURSIVE join_comma(_)
join_comma(unpacked) ==
    IF Len(unpacked) = 1 THEN str(unpacked[1])
    ELSE str(unpacked[1]) \o "," \o join_comma(Tail(unpacked))

\* ------------------------------------------------------ decode_data_by_type

\* Mutant of slice_to: the payload passed on whole.
slice_to_whole(raw_bytes, num_bytes) == raw_bytes

\* raw_bytes[:num_bytes]
slice_to(raw_bytes, num_bytes) ==
    SubSeq(raw_bytes, 1, IF num_bytes < Len(raw_bytes) THEN num_bytes ELSE Len(raw_bytes))

\* Mutant of decode_error: the rule's name returned unmarked.
decode_error_unmarked(data_slice, data_type) ==
    <<<<"str", bytes_hex_upper(data_slice)>>, data_type>>

\* The except branch: hex of the slice, status decode_error_<name>.
decode_error(data_slice, data_type) ==
    <<<<"str", bytes_hex_upper(data_slice)>>, "decode_error_" \o data_type>>

\* The body of the try block; any exception in it ends in decode_error.
decode_try(fmt, data_slice, data_type) ==
    IF fmt = None THEN <<<<"str", bytes_hex_upper(data_slice)>>, data_type>>
    ELSE LET unpacked == struct_unpack(fmt, data_slice)
         IN  IF unpacked[1] = "struct.error" THEN decode_error(data_slice, data_type)
             ELSE IF Len(unpacked[2]) > 1 THEN <<<<"str", join_comma(unpacked[2])>>, data_type>>
             ELSE IF Len(unpacked[2]) = 0 THEN decode_error(data_slice, data_type)
             ELSE <<unpacked[2][1], data_type>>

\* Mutant of decode_data_by_type: raw mode tested after the table lookup.
decode_data_by_type_lookup_first(raw_bytes, data_type_code, raw_mode) ==
    LET info == DATA_TYPE_INFO_get(data_type_code)
    IN  IF info = None
        THEN <<<<"str", bytes_hex_upper(raw_bytes)>>,
               "unknown_0x" \o Join(Format02X(data_type_code))>>
        ELSE IF raw_mode
        THEN <<<<"str", bytes_hex_upper(raw_bytes)>>, "raw_0x" \o Join(Format02X(data_type_code))>>
        ELSE decode_try(info[1], slice_to(raw_bytes, info[2]), info[3])

\* decode_data_by_type(raw_bytes, data_type_code, raw_mode) -> <<value, status>>
decode_data_by_type(raw_bytes, data_type_code, raw_mode) ==
    IF raw_mode
    THEN <<<<"str", bytes_hex_upper(raw_bytes)>>, "raw_0x" \o Join(Format02X(data_type_code))>>
    ELSE LET info == DATA_TYPE_INFO_get(data_type_code)
         IN  IF info = None
             THEN <<<<"str", bytes_hex_upper(raw_bytes)>>,
                    "unknown_0x" \o Join(Format02X(data_type_code))>>
             ELSE decode_try(info[1], slice_to(raw_bytes, info[2]), info[3])

\* ---------------------------------------------------------------- parse_line

\* f"0x{can_id:X} ({can_id:d})"
format_can_id(can_id) ==
    <<"0", "x">> \o FormatX(can_id) \o <<" ", "(">> \o FormatD(can_id) \o <<")">>

\* Mutant of payload_of: a two-byte header.
payload_of_two_byte_header(raw_bytes) == SubSeq(raw_bytes, 3, Len(raw_bytes))

\* payload = raw_bytes[4:]
payload_of(raw_bytes) == SubSeq(raw_bytes, 5, Len(raw_bytes))

\* parse_line(line, raw_mode) up to the header split:
\*   None                       the line is skipped (return None)
\*   <<"raise", exception>>     an exception leaves parse_line
\*   <<"frame", locals>>        the local variables once the header is split
parse_frame(line) ==
    LET match == CAN_LINE_PATTERN_match(line)
    IN  IF match = None THEN None
        ELSE IF ~float_ok(match[2]) THEN <<"raise", "ValueError">>
        ELSE IF ~fromtimestamp_ok(match[2]) THEN <<"raise", "ValueError">>
        ELSE LET can_id       == int16(match[3])
                 raw_data_hex == [i \in 1..Len(match[4]) |-> upper(match[4][i])]
                 fromhex      == bytes_fromhex(raw_data_hex)
             IN  IF fromhex[1] = "ValueError" THEN None
                 ELSE IF Len(fromhex[2]) < 4 THEN None
                 ELSE <<"frame",
                        [timestamp      |-> match[2],
                         can_id         |-> can_id,
                         raw_data_hex   |-> raw_data_hex,
                         raw_bytes      |-> fromhex[2],
                         node_id        |-> fromhex[2][1],
                         data_type_code |-> fromhex[2][2],
                         service_code   |-> fromhex[2][3],
                         message_code   |-> fromhex[2][4],
                         payload        |-> payload_of(fromhex[2])]>>

\* The dict parse_line returns for a frame.  The timestamp text is kept under
\* its rendering's name, not rendered: no property here reads the ISO string.
parse_record(f, raw_mode) ==
    LET decoded == decode_data_by_type(f.payload, f.data_type_code, raw_mode)
        info    == CANID_INFO_get(f.can_id)
    IN  [timestamp      |-> <<"utc_isoformat_ms", f.timestamp>>,
         can_id         |-> format_can_id(f.can_id),
         can_id_descr   |-> info[1],
         unit           |-> info[2],
         node_id        |-> f.node_id,
         service_code   |-> f.service_code,
         message_code   |-> f.message_code,
         data_type_code |-> "0x" \o Join(Format02X(f.data_type_code)),
         data_type      |-> decoded[2],
         decoded_value  |-> decoded[1],
         raw_data_hex   |-> Join(f.raw_data_hex)]

\* parse_line(line, raw_mode): None, <<"raise", e>> or <<"dict", record>>.
parse_line(line, raw_mode) ==
    LET f == parse_frame(line)
    IN  IF f[1] = "frame" THEN <<"dict", parse_record(f[2], raw_mode)>> ELSE f

\* ------------------------------------------------------------ parse_log_file

\* filter_set = {f"0x{can_id:X}" ...} if filter_can_ids else None
\* (None and the empty list are both falsy).
make_filter_set(filter_can_ids) ==
    IF filter_can_ids = None THEN None
    ELSE IF filter_can_ids[2] = <<>> THEN None
    ELSE <<"set", {<<"0", "x">> \o FormatX(filter_can_ids[2][i]) : i \in 1..Len(filter_can_ids[2])}>>

\* Mutant of passes_filter: the whole "can_id" field looked up, not its
\* first word.
passes_filter_whole_field(filter_set, parsed) ==
    \/ filter_set = None
    \/ parsed.can_id \in filter_set[2]

\* filter_set is None or parsed["can_id"].split()[0] in filter_set
passes_filter(filter_set, parsed) ==
    \/ filter_set = None
    \/ split_first(parsed.can_id)[2] \in filter_set[2]

\* Mutant of writerow: the row goes before the rows written so far.
writerow_in_front(rows, row) == <<row>> \o rows

\* writer.writerow(parsed): the row goes after the rows written so far.
writerow(rows, row) == Append(rows, row)

\* ============================================================ correct-ts.py

\* A name that no assignment has bound yet: reading it is a NameError.
Unbound == <<"unbound">>

\* text[a:b] for 0 <= a <= b: the characters at positions a..b-1 that exist.
slice(text, a, b) == SubSeq(text, a + 1, IF b < Len(text) THEN b ELSE Len(text))

\* str.split(): the runs of non-whitespace characters, in order.
RECURSIVE str_split_from(_, _)
str_split_from(text, i) ==
    LET b == SkipWhile(text, i, WhiteSpace)
        e == SkipUntil(text, b, WhiteSpace)
    IN  IF b > Len(text) THEN <<>>
        ELSE <<SubSeq(text, b, e - 1)>> \o str_split_from(text, e)

str_split(text) == str_split_from(text, 1)

\* str.split(sep) for a one-character sep: the pieces between the separators.
RECURSIVE str_split_on(_, _)
str_split_on(text, sep) ==
    LET e == SkipUntil(text, 1, {sep})
    IN  IF e > Len(text) THEN <<text>>
        ELSE <<SubSeq(text, 1, e - 1)>> \o str_split_on(SubSeq(text, e + 1, Len(text)), sep)

\* int(text, 16) succeeds on a non-empty run of hexadecimal digits; the empty
\* string and any other character of the inputs give ValueError.
int16_ok(text) == text # <<>> /\ \A i \in 1..Len(text) : text[i] \in HexDigit

\* check(line): <<"bool", b>>, or <<"raise", "IndexError">> when the line
\* ends before position 11 or 18 is looked at.
check(line) ==
    IF ~(Len(line) >= 1 /\ line[1] = "(") THEN <<"bool", FALSE>>
    ELSE IF \E i \in 1..Len(slice(line, 1, 11)) : slice(line, 1, 11)[i] \notin Digit
         THEN <<"bool", FALSE>>
    ELSE IF Len(line) <= 11 THEN <<"raise", "IndexError">>
    ELSE IF line[12] # "." THEN <<"bool", FALSE>>
    ELSE IF \E i \in 1..Len(slice(line, 12, 18)) : slice(line, 12, 18)[i] \notin Digit
         THEN <<"bool", FALSE>>
    ELSE IF Len(line) <= 18 THEN <<"raise", "IndexError">>
    ELSE IF line[19] # ")" THEN <<"bool", FALSE>>
    ELSE <<"bool", TRUE>>

\* getCanDate(line): <<"tuple", fields>>, or <<"raise", e>>.  float() is
\* applied to parts[0][1:18]; it is ValueError unless that text is a number
\* (on a line that check accepted it is ten digits, a dot and six digits).
getCanDate(line) ==
    LET parts  == str_split(line)
        tstext == slice(parts[1], 1, 18)
        parts2 == str_split_on(parts[3], "#")
    IN  IF parts = <<>> THEN <<"raise", "IndexError">>
        ELSE IF ~(/\ \A i \in 1..Len(tstext) : tstext[i] \in Digit \cup {"."}
                  /\ float_ok(tstext))
             THEN <<"raise", "ValueError">>
        ELSE IF Len(parts) < 3 THEN <<"raise", "IndexError">>
        ELSE IF Len(parts2) < 2 THEN <<"raise", "IndexError">>
        ELSE <<"tuple", [ts        |-> <<"float", tstext>>,
                         canDevStr |-> parts[2],
                         canIdStr  |-> parts2[1],
                         dataStr   |-> slice(parts2[2], 8, 40),
                         nodeIdStr |-> slice(parts2[2], 0, 2)]>>

\* A dict as a function from its keys to their values.
EmptyDict == [id \in {} |-> 0]

\* statistics(ids, id): a new key is set to 1, and then, new or not, the key is incremented.
statistics(ids, id) ==
    [k \in DOMAIN ids \cup {id} |->
        IF k = id THEN (IF id \in DOMAIN ids THEN ids[id] ELSE 1) + 1 ELSE ids[k]]

\* datetime.datetime(year, month, day, hour, minute, second): ValueError
\* outside the calendar.
IsLeap(year) == (year % 4 = 0 /\ year % 100 # 0) \/ year % 400 = 0

DaysInMonth(year, month) ==
    CASE month \in {4, 6, 9, 11} -> 30
      [] month = 2 -> IF IsLeap(year) THEN 29 ELSE 28
      [] OTHER -> 31

datetime_ok(year, month, day, hour, minute, second) ==
    /\ year \in 1..9999
    /\ month \in 1..12
    /\ day \in 1..DaysInMonth(year, month)
    /\ hour \in 0..23
    /\ minute \in 0..59
    /\ second \in 0..59

\* Days from 1970-01-01 to the given date of the Gregorian calendar.
DaysFromCivil(year, month, day) ==
    LET y   == IF month <= 2 THEN year - 1 ELSE year
        era == y \div 400
        yoe == y - era * 400
        mp  == IF month > 2 THEN month - 3 ELSE month + 9
        doy == (153 * mp + 2) \div 5 + day - 1
        doe == yoe * 365 + yoe \div 4 - yoe \div 100 + doy
    IN  era * 146097 + doe - 719468

\* datetime(...).timestamp() with the local zone at a fixed offset (UTC):
\* the seconds since the epoch, kept as whole days and seconds of the day.
timestamp(year, month, day, hour, minute, second) ==
    [days    |-> DaysFromCivil(year, month, day),
     seconds |-> hour * 3600 + minute * 60 + second]

\* a - b for two such timestamps.
timestamp_sub(a, b) == [days |-> a.days - b.days, seconds |-> a.seconds - b.seconds]

\* diff > 3600 * 5, diff being 0 or a difference of two timestamps.
diff_exceeds_5h(diff) ==
    IF diff.days >= 2 THEN TRUE
    ELSE IF diff.days <= -1 THEN FALSE
    ELSE diff.days * 86400 + diff.seconds > 3600 * 5

\* The module-level names of correct-ts.py when the for loop is entered, with
\* the names that the loop binds later.  cnt counts the lines taken so far;
\* written, renamed, errors and reports are what the script has put into
\* data/ and on standard output.
ScriptStart(file) ==
    [pc           |-> "for",
     exception    |-> None,
     inf          |-> file,
     cnt          |-> 0,
     line         |-> Unbound,
     canIds       |-> EmptyDict,
     nodeIds      |-> EmptyDict,
     lastTime     |-> <<"int", 0>>,
     dataUtcStr   |-> None,
     dataDateStr  |-> None,
     ts_log_last  |-> None,
     ts_log_first |-> None,
     log_file_nr  |-> 0,
     new_log      |-> None,
     diff         |-> None,
     mmm          |-> <<>>,
     ts           |-> Unbound,
     canId        |-> Unbound,
     nodeIdStr    |-> Unbound,
     ts_gps       |-> Unbound,
     written      |-> <<>>,
     renamed      |-> <<>>,
     errors       |-> <<>>,
     reports      |-> 0]

\* The script not started.
ScriptIdle == [ScriptStart(<<>>) EXCEPT !.pc = "idle"]

\* An exception that nothing catches ends the script: the statements after
\* the one that raised are not run (pc = "raised" passes through them).
raise(s, e) == [s EXCEPT !.pc = "raised", !.exception = e]

\* close_logfile(): new_log.close(), then the file renamed after
\* int(ts_log_first); only IOError is caught.
close_logfile(s) ==
    IF s.new_log = None THEN raise(s, "AttributeError")
    ELSE IF s.ts_log_first = None THEN raise(s, "TypeError")
    ELSE [s EXCEPT !.renamed = Append(@, <<s.new_log[2], s.ts_log_first>>)]

\* print_statistics(): mean() needs one data point, variance() and stdev()
\* two; then the report is printed and mmm emptied.
print_statistics(s) ==
    IF Len(s.mmm) < 2 THEN raise(s, "StatisticsError")
    ELSE [s EXCEPT !.reports = @ + 1, !.mmm = <<>>]

\* diff = 0; if new_log == None: log_file_nr += 1; new_log = open(...)
open_new_log(s) ==
    LET s0 == [s EXCEPT !.diff = <<"seconds", [days |-> 0, seconds |-> 0]>>]
    IN  IF s0.new_log = None
        THEN [s0 EXCEPT !.log_file_nr = @ + 1, !.new_log = <<"file", s0.log_file_nr + 1>>]
        ELSE s0

\* The branch canId == 0x1FFFFFF0: the date and time read from fixed columns
\* of the line (the month from column 37 alone), diff against the previous
\* sync, and the line withheld from the new log.
time_sync(s) ==
    LET line  == s.line[2]
        texts == <<slice(line, 34, 36), slice(line, 37, 38), slice(line, 38, 40),
                   slice(line, 40, 42), slice(line, 42, 44), slice(line, 44, 46)>>
        year   == int16(texts[1]) + 2000
        month  == int16(texts[2])
        day    == int16(texts[3])
        hour   == int16(texts[4])
        minute == int16(texts[5])
        second == int16(texts[6])
        ts_log == timestamp(year, month, day, hour, minute, second)
        last   == IF s.ts_log_last = None THEN ts_log ELSE s.ts_log_last[2]
    IN  IF \E i \in 1..6 : ~int16_ok(texts[i]) THEN raise(s, "ValueError")
        ELSE IF ~datetime_ok(year, month, day, hour, minute, second) THEN raise(s, "ValueError")
        ELSE [s EXCEPT !.diff = <<"seconds", timestamp_sub(ts_log, last)>>,
                       !.ts_log_last = <<"timestamp", ts_log>>,
                       !.line = None]

\* The branch canId == 1200: ts_gps from the last date and this time of day
\* when a date has been seen; mmm.append(ts_gps - ts) in either case, the
\* difference kept as its two operands.
utc(s, dataStr) ==
    LET d      == s.dataDateStr[2]
        texts  == <<slice(d, 4, 6), slice(d, 6, 8), slice(d, 2, 4), slice(d, 0, 2),
                    slice(dataStr, 0, 2), slice(dataStr, 2, 4), slice(dataStr, 4, 6)>>
        year   == int16(texts[1]) * 100 + int16(texts[2])
        month  == int16(texts[3])
        day    == int16(texts[4])
        hour   == int16(texts[5])
        minute == int16(texts[6])
        second == int16(texts[7])
        s1     == IF s.dataDateStr = None THEN s
                  ELSE IF \E i \in 1..7 : ~int16_ok(texts[i]) THEN raise(s, "ValueError")
                  ELSE IF ~datetime_ok(year, month, day, hour, minute, second)
                       THEN raise(s, "ValueError")
                  ELSE [s EXCEPT !.ts_gps = <<"timestamp",
                                   timestamp(year, month, day, hour, minute, second)>>]
    IN  IF s1.pc = "raised" THEN s1
        ELSE IF s1.ts_gps = Unbound THEN raise(s1, "NameError")
        ELSE [s1 EXCEPT !.mmm = Append(@, <<s1.ts_gps[2], s1.ts>>),
                        !.dataUtcStr = <<"str", dataStr>>]

\* The else branch of `if not check(line)`: the fields of the line, the
\* first timestamp of the log, the identifier and its branch.
accepted(s) ==
    LET g  == getCanDate(s.line[2])
        f  == g[2]
        s1 == [s EXCEPT !.ts = f.ts,
                        !.nodeIdStr = <<"str", f.nodeIdStr>>,
                        !.ts_log_first = IF @ = None THEN f.ts ELSE @]
        canId == int16(f.canIdStr)
        s2 == [s1 EXCEPT !.canId = <<"int", canId>>]
    IN  IF g[1] = "raise" THEN raise(s, g[2])
        ELSE IF ~int16_ok(f.canIdStr) THEN raise(s1, "ValueError")
        ELSE IF canId = 536870896 THEN time_sync(s2)
        ELSE IF canId = 1200 THEN utc(s2, f.dataStr)
        ELSE IF canId = 1206 THEN [s2 EXCEPT !.dataDateStr = <<"str", f.dataStr>>]
        ELSE s2

\* if not check(line): print("ERROR, ...") else: ...
check_line(s) ==
    LET c == check(s.line[2])
    IN  IF c[1] = "raise" THEN raise(s, c[2])
        ELSE IF ~c[2] THEN [s EXCEPT !.errors = Append(@, s.cnt - 1)]
        ELSE accepted(s)

\* if line != None: new_log.write(line)
write_line(s) ==
    IF s.pc = "raised" THEN s
    ELSE IF s.line # None THEN [s EXCEPT !.written = Append(@, <<s.new_log[2], s.cnt>>)] ELSE s

\* if diff > 3600 * 5: close_logfile(); new_log = None; ts_log_first = None;
\* print_statistics()
split_log(s) ==
    LET closed == close_logfile(s)
    IN  IF s.pc = "raised" THEN s
        ELSE IF ~diff_exceeds_5h(s.diff[2]) THEN s
        ELSE IF closed.pc = "raised" THEN closed
        ELSE print_statistics([closed EXCEPT !.new_log = None, !.ts_log_first = None])

\* statistics(canIds, canId); statistics(nodeIds, int(nodeIdStr, 16));
\* lastTime = ts -- run for every line, whatever check said of it.
count(s) ==
    LET s1 == [s EXCEPT !.canIds = statistics(@, s.canId[2])]
    IN  IF s.pc = "raised" THEN s
        ELSE IF s.canId = Unbound THEN raise(s, "NameError")
        ELSE IF s.nodeIdStr = Unbound THEN raise(s1, "NameError")
        ELSE IF ~int16_ok(s.nodeIdStr[2]) THEN raise(s1, "ValueError")
        ELSE [s1 EXCEPT !.nodeIds = statistics(@, int16(s.nodeIdStr[2])),
                        !.lastTime = s.ts]

\* One pass of the body of `for cnt, line in enumerate(inf)`.
loop_body(s) ==
    LET s0 == [s EXCEPT !.cnt = @ + 1, !.line = <<"str", s.inf[s.cnt + 1]>>]
    IN  count(split_log(write_line(check_line(open_new_log(s0)))))

\* After the loop: close_logfile(); print_statistics(); the tables printed.
after_loop(s) ==
    LET s1 == close_logfile(s)
        s2 == IF s1.pc = "raised" THEN s1 ELSE print_statistics(s1)
    IN  IF s2.pc = "raised" THEN s2 ELSE [s2 EXCEPT !.pc = "done"]

\* ------------------------------------------------------------------- state

VARIABLES
    input,           \* the lines of the input file
    raw_mode,        \* parse_log_file's raw_mode argument
    filter_can_ids,  \* its filter_can_ids argument: None or <<"list", ids>>
    filter_set,      \* the local filter_set
    pc,              \* "idle" | "for" | "write" | "done" | "raised"
    lineno,          \* lines taken from infile so far
    frame,           \* parse_line's locals for the last line taken:
                     \* <<"frame", locals>>, or None when it gave no frame
    parsed,          \* the local parsed: None or <<"dict", record>>
    writer,          \* the rows written after the header, each with the
                     \* number of the line it came from
    script           \* correct-ts.py: its module-level names, its position
                     \* (pc: "idle" | "for" | "done" | "raised") and its output

vars == <<input, raw_mode, filter_can_ids, filter_set, pc, lineno, frame, parsed, writer, script>>

\* ------------------------------------------------------------------ inputs

\* '(1690000000.000000) can0 154#0A02B6F3FC00': the flaps frame, no line terminator
LineFlaps ==
    <<"(", "1", "6", "9", "0", "0", "0", "0", "0", "0", "0", ".", "0", "0", "0", "0", "0", "0", ")", " ", "c", "a", "n", "0", " ", "1", "5", "4", "#", "0", "A", "0", "2", "B", "6", "F", "3", "F", "C", "0", "0">>

\* '(1690000000.000000) can0 150#0A0200003F800000\n': FLOAT 1.0
LineFloatOne ==
    <<"(", "1", "6", "9", "0", "0", "0", "0", "0", "0", "0", ".", "0", "0", "0", "0", "0", "0", ")", " ", "c", "a", "n", "0", " ", "1", "5", "0", "#", "0", "A", "0", "2", "0", "0", "0", "0", "3", "F", "8", "0", "0", "0", "0", "0", "\n">>

\* '(1.2.3) can0 154#0A02B6F3FC00\n': a timestamp float() rejects
LineTwoDots ==
    <<"(", "1", ".", "2", ".", "3", ")", " ", "c", "a", "n", "0", " ", "1", "5", "4", "#", "0", "A", "0", "2", "B", "6", "F", "3", "F", "C", "0", "0", "\n">>

\* '(253402300800) can0 154#0A02B6F3FC00\n': a timestamp past year 9999
LineYear10000 ==
    <<"(", "2", "5", "3", "4", "0", "2", "3", "0", "0", "8", "0", "0", ")", " ", "c", "a", "n", "0", " ", "1", "5", "4", "#", "0", "A", "0", "2", "B", "6", "F", "3", "F", "C", "0", "0", "\n">>

\* '(253402300800) can0 154#0A02B6\n': 3 bytes under a timestamp past year 9999
LineYear10000Short ==
    <<"(", "2", "5", "3", "4", "0", "2", "3", "0", "0", "8", "0", "0", ")", " ", "c", "a", "n", "0", " ", "1", "5", "4", "#", "0", "A", "0", "2", "B", "6", "\n">>

\* '(1690000000.000000) can0 154#0A02B6\n': 3 bytes
LineShort ==
    <<"(", "1", "6", "9", "0", "0", "0", "0", "0", "0", "0", ".", "0", "0", "0", "0", "0", "0", ")", " ", "c", "a", "n", "0", " ", "1", "5", "4", "#", "0", "A", "0", "2", "B", "6", "\n">>

\* '(1690000000.000000) can0 154#0A02B6F3F\n': an odd number of hex digits
LineOddHex ==
    <<"(", "1", "6", "9", "0", "0", "0", "0", "0", "0", "0", ".", "0", "0", "0", "0", "0", "0", ")", " ", "c", "a", "n", "0", " ", "1", "5", "4", "#", "0", "A", "0", "2", "B", "6", "F", "3", "F", "\n">>

\* '(1690000000.000000) can0 154#0A02B6F3FC00ZZ\n': text after the payload
LineTrailing ==
    <<"(", "1", "6", "9", "0", "0", "0", "0", "0", "0", "0", ".", "0", "0", "0", "0", "0", "0", ")", " ", "c", "a", "n", "0", " ", "1", "5", "4", "#", "0", "A", "0", "2", "B", "6", "F", "3", "F", "C", "0", "0", "Z", "Z", "\n">>

\* '(1690000000.000000) can0 154#0A02B6F3FCG0\n': a payload that is hex only in its leading part
LineHexThenNot ==
    <<"(", "1", "6", "9", "0", "0", "0", "0", "0", "0", "0", ".", "0", "0", "0", "0", "0", "0", ")", " ", "c", "a", "n", "0", " ", "1", "5", "4", "#", "0", "A", "0", "2", "B", "6", "F", "3", "F", "C", "G", "0", "\n">>

\* '(1690000000.000000) 154#0A02B6F3FC00 can0\n': fields reordered
LineReordered ==
    <<"(", "1", "6", "9", "0", "0", "0", "0", "0", "0", "0", ".", "0", "0", "0", "0", "0", "0", ")", " ", "1", "5", "4", "#", "0", "A", "0", "2", "B", "6", "F", "3", "F", "C", "0", "0", " ", "c", "a", "n", "0", "\n">>

\* '(1690000000.000000)\tcan12  1b0#0a63b6f3fc00aa\n': lowercase hex, tab, code 0x63
LineLower ==
    <<"(", "1", "6", "9", "0", "0", "0", "0", "0", "0", "0", ".", "0", "0", "0", "0", "0", "0", ")", "\t", "c", "a", "n", "1", "2", " ", " ", "1", "b", "0", "#", "0", "a", "6", "3", "b", "6", "f", "3", "f", "c", "0", "0", "a", "a", "\n">>

\* '(1690000000.000000) can0 155#0AFF0000\n': an id outside the catalog, exactly 4 bytes, code 0xFF
LineUnknownId ==
    <<"(", "1", "6", "9", "0", "0", "0", "0", "0", "0", "0", ".", "0", "0", "0", "0", "0", "0", ")", " ", "c", "a", "n", "0", " ", "1", "5", "5", "#", "0", "A", "F", "F", "0", "0", "0", "0", "\n">>

\* '\n': an empty line
LineEmpty ==
    <<"\n">>

Corpus ==
    {LineFlaps,
     LineFloatOne,
     LineTwoDots,
     LineYear10000,
     LineYear10000Short,
     LineShort,
     LineOddHex,
     LineTrailing,
     LineHexThenNot,
     LineReordered,
     LineLower,
     LineUnknownId,
     LineEmpty}

\* The lines that files of several lines are made of: three that give a
\* record (ids 0x154, 0x1B0, 0x155), one skipped, one that raises, one
\* matched in part.
SequenceCorpus ==
    {LineFlaps, LineLower, LineUnknownId, LineShort, LineTwoDots, LineTrailing}

\* The lines that iterating over a text file gives: every line but the last
\* ends with its line terminator.
LinesOfAFile(lines) ==
    \A k \in 1..(Len(lines) - 1) : lines[k][Len(lines[k])] = "\n"

\* Every corpus line as a one-line file, and every file of at most MaxLines
\* lines of SequenceCorpus.
CorpusFiles ==
    {<<line>> : line \in Corpus}
        \cup {file \in UNION {[1..n -> SequenceCorpus] : n \in 0..MaxLines} : LinesOfAFile(file)}

\* The filter_can_ids arguments tried: none, the empty list, one id, two ids
\* (0x154 = 340, 0x1B0 = 432).
FilterArgs ==
    {None, <<"list", <<>>>>, <<"list", <<340>>>>, <<"list", <<340, 432>>>>}

\* Payload byte patterns, repeated to the length asked for.
PayloadPatterns ==
    {<<182, 243, 252, 0, 127, 128, 1, 255>>,    \* B6 F3 FC 00 7F 80 01 FF
     <<0, 0, 0, 0, 0, 0, 240, 63>>,             \* 00 00 00 00 00 00 F0 3F
     <<255, 255, 255, 255, 128, 0, 0, 1>>}      \* FF FF FF FF 80 00 00 01

PayloadOf(pattern, n) == [i \in 1..n |-> pattern[((i - 1) % Len(pattern)) + 1]]

FramePayloads == {PayloadOf(p, n) : p \in PayloadPatterns, n \in 0..MaxPayloadLen}

\* The characters of bytes.hex().upper().
RECURSIVE HexChars(_)
HexChars(raw_bytes) ==
    IF raw_bytes = <<>> THEN <<>> ELSE Format02X(Head(raw_bytes)) \o HexChars(Tail(raw_bytes))

\* A well-formed line carrying the frame (node 0x0A, the code, service 0x01,
\* message 0x02, the payload) under id 0x154.
FrameLine(data_type_code, payload) ==
    <<"(", "1", "6", "9", "0", "0", "0", "0", "0", "0", "0", ".", "0", "0", "0", "0", "0", "0", ")",
      " ", "c", "a", "n", "0", " ", "1", "5", "4", "#">>
    \o HexChars(<<10, data_type_code, 1, 2>> \o payload) \o <<"\n">>

\* ------------------------------------------------------------- the pipeline

\* parse_log_file entered: files open, header written, filter_set built.
Start(file, raw, filter) ==
    /\ input = file
    /\ raw_mode = raw
    /\ filter_can_ids = filter
    /\ filter_set = make_filter_set(filter)
    /\ pc = "for"
    /\ lineno = 0
    /\ frame = None
    /\ parsed = None
    /\ writer = <<>>
    /\ script = ScriptIdle

Init ==
    \E file \in CorpusFiles, raw \in BOOLEAN, filter \in FilterArgs : Start(file, raw, filter)

InitFrames ==
    \E code \in 0..255, payload \in FramePayloads, raw \in BOOLEAN, filter \in {None, <<"list", <<340>>>>, <<"list", <<432>>>>} :
        Start(<<FrameLine(code, payload)>>, raw, filter)

\* for line in infile: parsed = parse_line(line, raw_mode)
\* An exception of parse_line is caught nowhere: it ends parse_log_file.
ParseLine ==
    /\ pc = "for"
    /\ lineno < Len(input)
    /\ LET line   == input[lineno + 1]
           f      == parse_frame(line)
           result == parse_line(line, raw_mode)
       IN  /\ lineno' = lineno + 1
           /\ frame' = IF f[1] = "frame" THEN f ELSE None
           /\ parsed' = IF result[1] = "raise" THEN parsed ELSE result
           /\ pc' = IF result[1] = "raise" THEN "raised" ELSE "write"
    /\ UNCHANGED <<input, raw_mode, filter_can_ids, filter_set, writer, script>>

\* if parsed: if filter_set is None or ... in filter_set: writer.writerow(parsed)
WriteRow ==
    /\ pc = "write"
    /\ writer' = IF parsed # None /\ passes_filter(filter_set, parsed[2])
                 THEN writerow(writer, [line |-> lineno, row |-> parsed[2]])
                 ELSE writer
    /\ pc' = "for"
    /\ UNCHANGED <<input, raw_mode, filter_can_ids, filter_set, lineno, frame, parsed, script>>

\* The for loop finds infile exhausted.
EndOfFile ==
    /\ pc = "for"
    /\ lineno = Len(input)
    /\ pc' = "done"
    /\ UNCHANGED <<input, raw_mode, filter_can_ids, filter_set, lineno, frame, parsed, writer, script>>

Next == ParseLine \/ WriteRow \/ EndOfFile

\* Files of corpus lines.
Spec == Init /\ [][Next]_vars

\* One well-formed line per file, over every data-type code.
SpecFrames == InitFrames /\ [][Next]_vars

\* ------------------------------------------------------ correct-ts.py runs

\* '(1564994147.496590) can0 78A#0A0C1CE5F7990000\n': an accepted line, id 0x78A, node 0x0A
TsLineOrdinary ==
    <<"(", "1", "5", "6", "4", "9", "9", "4", "1", "4", "7", ".", "4", "9", "6", "5", "9", "0", ")", " ", "c", "a", "n", "0", " ", "7", "8", "A", "#", "0", "A", "0", "C", "1", "C", "E", "5", "F", "7", "9", "9", "0", "0", "0", "0", "\n">>

\* '(1564994154.769054) can0 40C#0B032A3A1BC27A49\n': an accepted line, id 0x40C, node 0x0B
TsLineOtherNode ==
    <<"(", "1", "5", "6", "4", "9", "9", "4", "1", "5", "4", ".", "7", "6", "9", "0", "5", "4", ")", " ", "c", "a", "n", "0", " ", "4", "0", "C", "#", "0", "B", "0", "3", "2", "A", "3", "A", "1", "B", "C", "2", "7", "A", "4", "9", "\n">>

\* '(1569437515.1000000) can0 141#0A0200A942E1CBEA\n': seven fraction digits: check rejects it
TsLineLongStamp ==
    <<"(", "1", "5", "6", "9", "4", "3", "7", "5", "1", "5", ".", "1", "0", "0", "0", "0", "0", "0", ")", " ", "c", "a", "n", "0", " ", "1", "4", "1", "#", "0", "A", "0", "2", "0", "0", "A", "9", "4", "2", "E", "1", "C", "B", "E", "A", "\n">>

\* '(1566638861.000000) can0 1FFFFFF0#1308180B1B29\n': time sync, 2019-08-24 11:27:41
TsLineSync ==
    <<"(", "1", "5", "6", "6", "6", "3", "8", "8", "6", "1", ".", "0", "0", "0", "0", "0", "0", ")", " ", "c", "a", "n", "0", " ", "1", "F", "F", "F", "F", "F", "F", "0", "#", "1", "3", "0", "8", "1", "8", "0", "B", "1", "B", "2", "9", "\n">>

\* '(1566660461.000000) can0 1FFFFFF0#130818111B29\n': time sync six hours later
TsLineSyncLater ==
    <<"(", "1", "5", "6", "6", "6", "6", "0", "4", "6", "1", ".", "0", "0", "0", "0", "0", "0", ")", " ", "c", "a", "n", "0", " ", "1", "F", "F", "F", "F", "F", "F", "0", "#", "1", "3", "0", "8", "1", "8", "1", "1", "1", "B", "2", "9", "\n">>

\* '(1566638862.000000) can0 4B0#0A0000000B1B2A00\n': id 1200, UTC 11:27:42
TsLineUtc ==
    <<"(", "1", "5", "6", "6", "6", "3", "8", "8", "6", "2", ".", "0", "0", "0", "0", "0", "0", ")", " ", "c", "a", "n", "0", " ", "4", "B", "0", "#", "0", "A", "0", "0", "0", "0", "0", "0", "0", "B", "1", "B", "2", "A", "0", "0", "\n">>

\* '(1566638862.100000) can0 4B6#0A00000018081413\n': id 1206, date 24.08.2019
TsLineDate ==
    <<"(", "1", "5", "6", "6", "6", "3", "8", "8", "6", "2", ".", "1", "0", "0", "0", "0", "0", ")", " ", "c", "a", "n", "0", " ", "4", "B", "6", "#", "0", "A", "0", "0", "0", "0", "0", "0", "1", "8", "0", "8", "1", "4", "1", "3", "\n">>

\* '(1234567890': a last line cut after the seconds
TsLineCut ==
    <<"(", "1", "2", "3", "4", "5", "6", "7", "8", "9", "0">>

\* '(1564994147.496590) can0\n': accepted by check, no frame field
TsLineNoFrame ==
    <<"(", "1", "5", "6", "4", "9", "9", "4", "1", "4", "7", ".", "4", "9", "6", "5", "9", "0", ")", " ", "c", "a", "n", "0", "\n">>

\* '(1564994147.496590) can0 78A#\n': accepted by check, nothing after '#'
TsLineNoPayload ==
    <<"(", "1", "5", "6", "4", "9", "9", "4", "1", "4", "7", ".", "4", "9", "6", "5", "9", "0", ")", " ", "c", "a", "n", "0", " ", "7", "8", "A", "#", "\n">>

\* The lines a log file is made of.
ScriptCorpus ==
    <<TsLineOrdinary,
      TsLineOtherNode,
      TsLineLongStamp,
      TsLineSync,
      TsLineSyncLater,
      TsLineUtc,
      TsLineDate,
      TsLineCut,
      TsLineNoFrame,
      TsLineNoPayload>>

\* Log files of at most MaxScriptLines lines.
ScriptFiles ==
    {file \in UNION {[1..n -> {ScriptCorpus[i] : i \in 1..Len(ScriptCorpus)}] : n \in 0..MaxScriptLines} :
        LinesOfAFile(file)}

\* `with open(inputFile) as inf:` entered and the names of lines 75-86 bound;
\* the decoder is not run.
InitCorrectTs ==
    /\ \E file \in ScriptFiles : script = ScriptStart(file)
    /\ input = <<>>
    /\ raw_mode = FALSE
    /\ filter_can_ids = None
    /\ filter_set = None
    /\ pc = "idle"
    /\ lineno = 0
    /\ frame = None
    /\ parsed = None
    /\ writer = <<>>

\* for cnt, line in enumerate(inf): one line taken and the body run on it.
LoopBody ==
    /\ script.pc = "for"
    /\ script.cnt < Len(script.inf)
    /\ script' = loop_body(script)
    /\ UNCHANGED <<input, raw_mode, filter_can_ids, filter_set, pc, lineno, frame, parsed, writer>>

\* The for loop finds inf exhausted: the last log is closed, the statistics
\* and the two tables are printed.
AfterLoop ==
    /\ script.pc = "for"
    /\ script.cnt = Len(script.inf)
    /\ script' = after_loop(script)
    /\ UNCHANGED <<input, raw_mode, filter_can_ids, filter_set, pc, lineno, frame, parsed, writer>>

NextCorrectTs == LoopBody \/ AfterLoop

\* Runs of correct-ts.py on files of corpus lines.
SpecCorrectTs == InitCorrectTs /\ [][NextCorrectTs]_vars



\* ---------------------------------------------------------------- properties

\* The line the loop took last (lineno >= 1).
LastLine == input[lineno]

\* The rows of the sink that came from line k.
RowsOfLine(k) == {i \in 1..Len(writer) : writer[i].line = k}

\* The payload's hexadecimal text as the line spells it, in upper case: the
\* characters after the 8 of the header.
PayloadHexText == Join(SubSeq(frame[2].raw_data_hex, 9, Len(frame[2].raw_data_hex)))

\* The data-type code's two hexadecimal digits as the line spells them.
CodeHexText == Join(SubSeq(frame[2].raw_data_hex, 3, 4))

\* The line has the grammar's shape as far as the pattern reads it, with a
\* timestamp that is one unsigned decimal number, and its payload text
\* decodes to at least 4 bytes.
GrammarLineOf4Bytes(line) ==
    LET m == CAN_LINE_PATTERN_match(line)
    IN  /\ m # None
        /\ float_ok(m[2])
        /\ Len(m[4]) % 2 = 0
        /\ Len(m[4]) >= 8

\* Byte k (from 0) of the payload text of a line that matches.
ByteOfLine(line, k) ==
    LET text == CAN_LINE_PATTERN_match(line)[4]
    IN  HexVal(text[2 * k + 1]) * 16 + HexVal(text[2 * k + 2])

\* C1: no line raises out of parse_line, so no line stops the pass: the loop
\* is never left by an exception, and it ends only with every line taken.
C1_NoLineStopsThePass ==
    /\ pc # "raised"
    /\ pc = "done" => lineno = Len(input)

\* C2: a line matching the grammar whose payload decodes to at least 4 bytes
\* yields exactly one record, whose node_id, data_type_code, service_code and
\* message_code are payload bytes 0, 1, 2 and 3.
C2_OneRecordWithHeaderBytes ==
    (lineno >= 1 /\ GrammarLineOf4Bytes(LastLine)) =>
        /\ pc # "raised"
        /\ parsed[1] = "dict"
        /\ parsed[2].node_id = ByteOfLine(LastLine, 0)
        /\ parsed[2].data_type_code = "0x" \o Join(Format02X(ByteOfLine(LastLine, 1)))
        /\ parsed[2].service_code = ByteOfLine(LastLine, 2)
        /\ parsed[2].message_code = ByteOfLine(LastLine, 3)
        /\ Cardinality(RowsOfLine(lineno)) <= 1

\* The flaps line was the last one taken, in non-raw mode.
FlapsLineDecoded == lineno >= 1 /\ pc # "raised" /\ LastLine = LineFlaps /\ ~raw_mode

\* C3 as stated: in non-raw mode the line (1690000000.000000) can0
\* 154#0A02B6F3FC00 yields a record with the catalog's name and unit of 0x154,
\* data type FLOAT, and as value the single-precision float of B6 F3 FC 00.
C3_FlapsLineIsFloatOfB6F3FC00 ==
    FlapsLineDecoded =>
        /\ parsed[1] = "dict"
        /\ parsed[2].can_id_descr = CANID_INFO[340][1]
        /\ parsed[2].unit = CANID_INFO[340][2]
        /\ parsed[2].data_type = "FLOAT"
        /\ parsed[2].decoded_value = struct_element("f", <<182, 243, 252, 0>>)

\* C3 amended: the record has the catalog's name and unit of 0x154 (Flaps
\* position, deg); B6 and F3 are the service and message codes of the header,
\* the payload is the two bytes FC 00, too short for a float, so the data type
\* is decode_error_FLOAT and the value the hex text FC00.
C3_FlapsLineIsDecodeErrorFC00 ==
    FlapsLineDecoded =>
        /\ parsed[1] = "dict"
        /\ parsed[2].can_id_descr = "Flaps position"
        /\ parsed[2].unit = "deg"
        /\ parsed[2].node_id = 10
        /\ parsed[2].data_type_code = "0x02"
        /\ parsed[2].service_code = 182
        /\ parsed[2].message_code = 243
        /\ parsed[2].data_type = "decode_error_FLOAT"
        /\ parsed[2].decoded_value = <<"str", "FC00">>

\* C3 witness: the flaps line parsed in non-raw mode and its row written.
C3_Witness ==
    /\ FlapsLineDecoded
    /\ pc = "for"
    /\ RowsOfLine(lineno) # {}

\* The decoder ran on the last line taken (the line gave a frame), so that
\* parsed is that line's record.
Decoded == lineno >= 1 /\ frame[1] = "frame"

\* C4 as stated: in non-raw mode a code in 0x20..0x62 gives status RESVD and a
\* code in 0x64..0xFE status UDEF, the value being the uppercase hex of the
\* payload cut to 4 bytes.
C4_ReservedAndUserDefinedTags ==
    (Decoded /\ ~raw_mode /\ frame[2].data_type_code \in (32..98) \cup (100..254)) =>
        /\ parsed[2].data_type = (IF frame[2].data_type_code <= 98 THEN "RESVD" ELSE "UDEF")
        /\ parsed[2].decoded_value = <<"str", bytes_hex_upper(slice_to(frame[2].payload, 4))>>

\* can_id is one of the identifiers of the filter list (a list was given).
InFilterList(can_id) ==
    \E i \in 1..Len(filter_can_ids[2]) : filter_can_ids[2][i] = can_id

\* The numeric identifier of the line a row came from.
IdOfRow(i) == parse_frame(input[writer[i].line])[2].can_id

\* The loop is between two lines (or past the last) and the last line taken
\* gave a record.
RecordHandled == Decoded /\ pc \in {"for", "done"}

\* C5 as stated: with a filter list of any size supplied, a record is emitted
\* if and only if its identifier is in the list; only with no list supplied
\* are all records emitted.
C5_EmittedIffInSuppliedList ==
    /\ RecordHandled =>
           (RowsOfLine(lineno) # {} <=>
                (filter_can_ids = None \/ InFilterList(frame[2].can_id)))
    /\ filter_can_ids # None => \A i \in 1..Len(writer) : InFilterList(IdOfRow(i))

\* C5 amended: with a non-empty filter list supplied, a record is emitted if
\* and only if its identifier is in the list; with no list or with an empty
\* list supplied, every record is emitted.
C5_EmittedIffInNonEmptyList ==
    LET unfiltered == filter_can_ids = None \/ filter_can_ids[2] = <<>>
    IN  /\ RecordHandled =>
               (RowsOfLine(lineno) # {} <=> (unfiltered \/ InFilterList(frame[2].can_id)))
        /\ ~unfiltered => \A i \in 1..Len(writer) : InFilterList(IdOfRow(i))

\* C5 witness: under a one-identifier list, a record of that identifier has
\* been written and a record of another identifier has just been dropped.
C5_Witness ==
    /\ RecordHandled
    /\ filter_can_ids = <<"list", <<340>>>>
    /\ frame[2].can_id # 340
    /\ RowsOfLine(lineno) = {}
    /\ Len(writer) >= 1

\* The pattern's match covers the whole line, a final line terminator aside.
WholeLineMatches(line) ==
    LET m == CAN_LINE_PATTERN_match(line)
    IN  /\ m # None
        /\ \/ m[5] = Len(line)
           \/ m[5] = Len(line) - 1 /\ line[Len(line)] = "\n"

\* C6: a line is accepted only when the whole line has the grammar's shape; a
\* line that matches only in part (text after the payload, a payload that is
\* hex only in its leading part) gives no record.
C6_PartialMatchGivesNoRecord ==
    (lineno >= 1 /\ pc # "raised" /\ ~WholeLineMatches(LastLine)) =>
        /\ parsed = None
        /\ RowsOfLine(lineno) = {}

\* The record of the last line taken reaches the sink exactly when the
\* filter admits its identifier (no filter, an empty list, or a list with it).
RecordEmitted ==
    pc \in {"for", "done"} =>
        (\E i \in RowsOfLine(lineno) : writer[i].row = parsed[2])
            <=> (filter_set = None \/ InFilterList(frame[2].can_id))

\* C7: in raw mode, for every data-type code 0..255 and every payload, the
\* status is raw_0x<code> and the value the uppercase hex of the whole
\* payload, whatever the Type Table holds for the code.
C7_RawModeIgnoresTheTable ==
    (Decoded /\ raw_mode) =>
        /\ parsed[2].data_type = "raw_0x" \o CodeHexText
        /\ parsed[2].decoded_value = <<"str", PayloadHexText>>

\* C7 witness: raw mode on a code with a numeric rule (FLOAT) and a payload
\* longer than the rule's 4 bytes.
C7_Witness ==
    /\ Decoded /\ raw_mode
    /\ frame[2].data_type_code = 2
    /\ Len(frame[2].payload) > 4
    /\ parsed[2].data_type = "raw_0x02"

\* C8: in non-raw mode codes 0x63 and 0xFF give status unknown_0x63 and
\* unknown_0xFF for every payload, with the uppercase hex of the whole
\* payload, and the frame's record is still emitted.
C8_AbsentCodesAreUnknown ==
    (Decoded /\ ~raw_mode /\ frame[2].data_type_code \in {99, 255}) =>
        /\ parsed[2].data_type =
               (IF frame[2].data_type_code = 99 THEN "unknown_0x63" ELSE "unknown_0xFF")
        /\ parsed[2].decoded_value = <<"str", PayloadHexText>>
        /\ RecordEmitted

\* C8 witness: code 0x63 with a payload longer than 4 bytes, its row written.
C8_Witness ==
    /\ Decoded /\ ~raw_mode
    /\ frame[2].data_type_code = 99
    /\ Len(frame[2].payload) > 4
    /\ pc = "for"
    /\ RowsOfLine(lineno) # {}

\* C9: in non-raw mode, for every code with a rule and every payload shorter
\* than the rule's byte length, the decoder raises nothing and gives status
\* decode_error_<tag> with the uppercase hex of the bytes there are; the
\* frame's record is still emitted.
C9_ShortPayloadIsDecodeError ==
    (/\ Decoded /\ ~raw_mode
     /\ frame[2].data_type_code \in DOMAIN DATA_TYPE_INFO
     /\ Len(frame[2].payload) < DATA_TYPE_INFO[frame[2].data_type_code][2]) =>
        /\ parsed[2].data_type = "decode_error_" \o DATA_TYPE_INFO[frame[2].data_type_code][3]
        /\ parsed[2].decoded_value = <<"str", PayloadHexText>>
        /\ RecordEmitted

\* C9 witness: a 3-byte payload under the big-endian double rule (8 bytes),
\* its row written.
C9_Witness ==
    /\ Decoded /\ ~raw_mode
    /\ frame[2].data_type_code = 30
    /\ Len(frame[2].payload) = 3
    /\ parsed[2].data_type = "decode_error_DOUBLEH"
    /\ pc = "for"
    /\ RowsOfLine(lineno) # {}

\* C10: the rows of the sink are an order-preserving subsequence of the input
\* lines: at most one row per line, the rows in the order of their lines, each
\* row the record of its line, and the row of a line written before the next
\* line is parsed.
C10_RowsInLineOrder ==
    /\ \A i \in 1..Len(writer) :
           /\ writer[i].line \in 1..lineno
           /\ <<"dict", writer[i].row>> = parse_line(input[writer[i].line], raw_mode)
    /\ \A i, j \in 1..Len(writer) : i < j => writer[i].line < writer[j].line
    /\ pc = "write" => \A i \in 1..Len(writer) : writer[i].line < lineno
    /\ (pc = "for" /\ Decoded /\ (filter_set = None \/ InFilterList(frame[2].can_id))) =>
           (Len(writer) >= 1 /\ writer[Len(writer)].line = lineno)

\* C10 witness: two rows, from the first and the third line, the second line
\* having given none.
C10_Witness ==
    /\ pc = "done"
    /\ Len(writer) = 2
    /\ writer[1].line = 1
    /\ writer[2].line = 3

\* The line has the grammar's shape as far as the pattern reads it, with a
\* timestamp that is one unsigned decimal number, and its payload text
\* decodes to n bytes.
GrammarLineOfBytes(line, n) ==
    LET m == CAN_LINE_PATTERN_match(line)
    IN  /\ m # None
        /\ float_ok(m[2])
        /\ Len(m[4]) = 2 * n

\* C11: a line whose payload decodes to fewer than 4 bytes gives no record
\* and the pipeline goes on to the next line; a payload of exactly 4 bytes is
\* not dropped.
C11_ShortFrameDroppedPassContinues ==
    /\ (lineno >= 1 /\ \E n \in 1..3 : GrammarLineOfBytes(LastLine, n)) =>
           /\ pc # "raised"
           /\ parsed = None
           /\ RowsOfLine(lineno) = {}
    /\ (lineno >= 1 /\ GrammarLineOfBytes(LastLine, 4)) =>
           /\ pc # "raised"
           /\ parsed[1] = "dict"

\* The (value, status) pair of the record of the last line taken.
DecodedPair == <<parsed[2].decoded_value, parsed[2].data_type>>

\* C12: in non-raw mode, for every payload, codes 0x0F and 0x1D decode to the
\* same (value, status) pair, and codes 0x10 and 0x11 to the same value under
\* different status tags, UCHAR4 and BCHAR4 (behind decode_error_ when the
\* payload is shorter than 4 bytes); the four codes are four entries of the
\* Type Table.
C12_TwinCodes ==
    /\ {15, 16, 17, 29} \subseteq DOMAIN DATA_TYPE_INFO
    /\ (Decoded /\ ~raw_mode) =>
           LET code    == frame[2].data_type_code
               payload == frame[2].payload
               short   == Len(payload) < 4
           IN  /\ code = 15 => DecodedPair = decode_data_by_type(payload, 29, FALSE)
               /\ code = 29 => DecodedPair = decode_data_by_type(payload, 15, FALSE)
               /\ code = 16 =>
                      /\ DecodedPair[1] = decode_data_by_type(payload, 17, FALSE)[1]
                      /\ DecodedPair[2] = (IF short THEN "decode_error_UCHAR4" ELSE "UCHAR4")
               /\ code = 17 =>
                      /\ DecodedPair[1] = decode_data_by_type(payload, 16, FALSE)[1]
                      /\ DecodedPair[2] = (IF short THEN "decode_error_BCHAR4" ELSE "BCHAR4")

\* C12 witness: code 0x11 decoded from a payload of at least 4 bytes with a
\* byte above 0x7F, where signed and unsigned layouts differ.
C12_Witness ==
    /\ Decoded /\ ~raw_mode
    /\ frame[2].data_type_code = 17
    /\ Len(frame[2].payload) >= 4
    /\ frame[2].payload[1] >= 128
    /\ parsed[2].data_type = "BCHAR4"

\* C13: in non-raw mode, for every code 0x01..0x1F of declared length N and
\* every payload of at least N bytes, the status is the rule's tag (never a
\* decode_error) and the result is that of decoding the first N bytes alone:
\* bytes beyond N change neither value nor status.
C13_BytesBeyondLengthIgnored ==
    (/\ Decoded /\ ~raw_mode
     /\ frame[2].data_type_code \in 1..31
     /\ Len(frame[2].payload) >= DATA_TYPE_INFO[frame[2].data_type_code][2]) =>
        LET info == DATA_TYPE_INFO[frame[2].data_type_code]
        IN  /\ parsed[2].data_type = info[3]
            /\ DecodedPair = decode_data_by_type(SubSeq(frame[2].payload, 1, info[2]),
                                                 frame[2].data_type_code, FALSE)

\* C13 witness: the 2-byte SHORT rule decoded from a payload of 5 bytes.
C13_Witness ==
    /\ Decoded /\ ~raw_mode
    /\ frame[2].data_type_code = 6
    /\ Len(frame[2].payload) = 5
    /\ parsed[2].data_type = "SHORT"
    /\ parsed[2].decoded_value[1] = "int"

\* The loop of correct-ts.py has taken every line of the file.
LoopExhausted == script.pc = "for" /\ script.cnt = Len(script.inf)

\* The lines of the file that check accepts.
AcceptedLines ==
    {k \in 1..Len(script.inf) : check(script.inf[k])[1] = "bool" /\ check(script.inf[k])[2]}

\* The CAN identifier and the node id that a line carries.
CanIdOfLine(k) == int16(getCanDate(script.inf[k])[2].canIdStr)
NodeIdOfLine(k) == int16(getCanDate(script.inf[k])[2].nodeIdStr)

\* The count a table holds for a key, 0 for a key it lacks.
CountIn(ids, id) == IF id \in DOMAIN ids THEN ids[id] ELSE 0

\* C14: when the loop of correct-ts.py has taken every line, canIds[id] is,
\* for every identifier, the number of lines accepted by check that carry
\* it, and nodeIds[n] the number of such lines with node id n; lines that
\* check rejects add to no counter.
C14_CountersCountAcceptedLines ==
    LoopExhausted =>
        /\ \A id \in DOMAIN script.canIds \cup {CanIdOfLine(k) : k \in AcceptedLines} :
               CountIn(script.canIds, id) = Cardinality({k \in AcceptedLines : CanIdOfLine(k) = id})
        /\ \A n \in DOMAIN script.nodeIds \cup {NodeIdOfLine(k) : k \in AcceptedLines} :
               CountIn(script.nodeIds, n) = Cardinality({k \in AcceptedLines : NodeIdOfLine(k) = n})

=============================================================================
